---- MODULE Spec2Model ----
(***************************************************************************)
(* Question and Subject services (questionService.js, subjectService.js).   *)
(*                                                                         *)
(* Every exported function is an async function: it runs synchronously up  *)
(* to its first await, and between two awaits; each await of a prisma call  *)
(* is one request that the store serves atomically.  A call is therefore    *)
(* modelled as a sequence of steps, one per request, and the steps of       *)
(* different calls interleave (Spec).  SpecSeq runs one call at a time.     *)
(*                                                                         *)
(* The two services share no state and no function of one reads the table   *)
(* of the other (disciplinaId is not looked up), so a behaviour drives one  *)
(* service, chosen in Init (inUse).                                         *)
(*                                                                         *)
(* Thrown errors are plain Error objects with a message; they are named     *)
(* here by their kind: "InvalidArgument" ('ID invalido...'),                *)
(* "ValidationError" ('... sao obrigatorios', 'Dificuldade deve ser entre   *)
(* 1 e 5'), "Conflict" ('... ja cadastrado', '... ja esta em uso'),         *)
(* "NotFound" ('... nao encontrada').  The services catch nothing, so a     *)
(* rejection of a prisma request reaches the caller as it is:               *)
(* "UniqueConstraintFailed" (insert or update of a value of a unique        *)
(* column that another row holds; enunciado and nome are unique columns,    *)
(* since findUnique is queried by them) and "RecordNotFound" (update or     *)
(* delete of a row that does not exist).                                    *)
(*                                                                         *)
(* createdAt and updatedAt are not modelled.                                *)
(***************************************************************************)
EXTENDS Integers, FiniteSets, TLC

VARIABLES questions, subjects, nextQuestionId, nextSubjectId, call, inUse

vars == <<questions, subjects, nextQuestionId, nextSubjectId, call, inUse>>

\* ---------------------------------------------------------------- bounds
\* Ids the store hands out in one behaviour: a create is started only while
\* the next id is at most MaxId.
MaxId == 2

MinDificuldade == 1
MaxDificuldade == 5

\* ---------------------------------------------------------------- values
\* A property of the data object: absent (undefined) or given with a value.
Absent(z) == [has |-> FALSE, val |-> z]
Given(v) == [has |-> TRUE, val |-> v]

\* An id argument: undefined, a non-numeric string, or a number.
IdUndefined == [kind |-> "undefined", val |-> 0]
IdText == [kind |-> "text", val |-> 0]
IdNum(n) == [kind |-> "number", val |-> n]

\* JavaScript truthiness of a string / a number property.
TruthyStr(x) == x.has /\ x.val # ""
TruthyNum(x) == x.has /\ x.val # 0

Kinds == {"InvalidArgument", "ValidationError", "Conflict", "NotFound"}

\* ---------------------------------------------------------------- calls
Procs == {1, 2}

NoData == [none |-> TRUE]

Idle ==
  [pc |-> "idle", op |-> "none", id |-> IdUndefined, data |-> NoData,
   found |-> {}, ret |-> {}, err |-> "", before |-> {},
   queried |-> FALSE, wrote |-> FALSE]

\* The call of p starts: its arguments, and the table as it is now.
Start(o, i, d, table) ==
  [Idle EXCEPT !.op = o, !.id = i, !.data = d, !.before = table]

\* The call of p throws the error of kind k / returns the records of r.
Throw(c, k) == [c EXCEPT !.pc = "done", !.err = k]
Return(c, r) == [c EXCEPT !.pc = "done", !.ret = r]

At(p, o, where) == call[p].op = o /\ call[p].pc = where

\* ---------------------------------------------------------------- ids
\* Variant: the test written with < instead of <=, and no !id.
InvalidIdNonNegative(id) ==
  id.kind = "undefined" \/ id.kind = "text" \/ id.val < 0

\* !id || isNaN(id) || id <= 0
InvalidId(id) ==
  id.kind = "undefined" \/ id.kind = "text" \/ id.val = 0 \/ id.val <= 0

\* ---------------------------------------------------------------- questionService.js
\* prisma.question.findUnique({ where: { id } }) and ({ where: { enunciado } })
QuestionById(id) == {q \in questions : q.id = id}
QuestionByEnunciado(e) == {q \in questions : q.enunciado = e}

\* Variant: the lookup never finds a record.
EnunciadoNeverExists(e) == FALSE

EnunciadoExists(e) == QuestionByEnunciado(e) # {}

\* Variant: the range test without dificuldade > 5.
ValidateQuestionDataNoUpperLimit(d) ==
  IF ~TruthyStr(d.enunciado) \/ ~TruthyNum(d.dificuldade)
       \/ ~TruthyStr(d.respostaCorreta) \/ ~TruthyNum(d.disciplinaId)
       \/ ~TruthyNum(d.autorId)
    THEN "ValidationError"
    ELSE IF d.dificuldade.val < MinDificuldade
           THEN "ValidationError"
           ELSE ""

\* The kind of the error validateQuestionData throws, "" when it throws none.
ValidateQuestionData(d) ==
  IF ~TruthyStr(d.enunciado) \/ ~TruthyNum(d.dificuldade)
       \/ ~TruthyStr(d.respostaCorreta) \/ ~TruthyNum(d.disciplinaId)
       \/ ~TruthyNum(d.autorId)
    THEN "ValidationError"
    ELSE IF d.dificuldade.val < MinDificuldade \/ d.dificuldade.val > MaxDificuldade
           THEN "ValidationError"
           ELSE ""

\* Variant: ativa: questionData.ativa || true.
NewQuestionAlwaysActive(d, id) ==
  [id |-> id, enunciado |-> d.enunciado.val, dificuldade |-> d.dificuldade.val,
   respostaCorreta |-> d.respostaCorreta.val, disciplinaId |-> d.disciplinaId.val,
   autorId |-> d.autorId.val, ativa |-> TRUE]

\* The row prisma.question.create inserts: data of createQuestion, id by the store.
NewQuestion(d, id) ==
  [id |-> id, enunciado |-> d.enunciado.val, dificuldade |-> d.dificuldade.val,
   respostaCorreta |-> d.respostaCorreta.val, disciplinaId |-> d.disciplinaId.val,
   autorId |-> d.autorId.val, ativa |-> IF d.ativa.has THEN d.ativa.val ELSE TRUE]

\* questionData.dificuldade && (dificuldade < 1 || dificuldade > 5)
DificuldadeForaDaFaixa(d) ==
  TruthyNum(d.dificuldade)
  /\ (d.dificuldade.val < MinDificuldade \/ d.dificuldade.val > MaxDificuldade)

\* Variant: if (questionData.ativa) instead of !== undefined.
QuestionPatchedTruthyAtiva(q, d) ==
  [id |-> q.id,
   enunciado |-> IF TruthyStr(d.enunciado) THEN d.enunciado.val ELSE q.enunciado,
   dificuldade |-> IF TruthyNum(d.dificuldade) THEN d.dificuldade.val ELSE q.dificuldade,
   respostaCorreta |->
     IF TruthyStr(d.respostaCorreta) THEN d.respostaCorreta.val ELSE q.respostaCorreta,
   disciplinaId |-> IF TruthyNum(d.disciplinaId) THEN d.disciplinaId.val ELSE q.disciplinaId,
   autorId |-> IF TruthyNum(d.autorId) THEN d.autorId.val ELSE q.autorId,
   ativa |-> IF d.ativa.has /\ d.ativa.val THEN d.ativa.val ELSE q.ativa]

\* The row q after prisma.question.update with dadosAtualizacao built from d.
QuestionPatched(q, d) ==
  [id |-> q.id,
   enunciado |-> IF TruthyStr(d.enunciado) THEN d.enunciado.val ELSE q.enunciado,
   dificuldade |-> IF TruthyNum(d.dificuldade) THEN d.dificuldade.val ELSE q.dificuldade,
   respostaCorreta |->
     IF TruthyStr(d.respostaCorreta) THEN d.respostaCorreta.val ELSE q.respostaCorreta,
   disciplinaId |-> IF TruthyNum(d.disciplinaId) THEN d.disciplinaId.val ELSE q.disciplinaId,
   autorId |-> IF TruthyNum(d.autorId) THEN d.autorId.val ELSE q.autorId,
   ativa |-> IF d.ativa.has THEN d.ativa.val ELSE q.ativa]

\* The select of deleteQuestion's findUnique: no ativa.
DeletedQuestionView(q) ==
  [id |-> q.id, enunciado |-> q.enunciado, dificuldade |-> q.dificuldade,
   respostaCorreta |-> q.respostaCorreta, disciplinaId |-> q.disciplinaId,
   autorId |-> q.autorId]

QuestionCall(p, c) ==
  /\ call' = [call EXCEPT ![p] = c]
  /\ UNCHANGED <<questions, subjects, nextQuestionId, nextSubjectId, inUse>>

\* getQuestionById up to its await.
GetQuestionByIdCall(p, id) ==
  /\ inUse = "question" /\ call[p].pc = "idle"
  /\ LET c == Start("getQuestionById", id, NoData, questions)
     IN QuestionCall(p, IF InvalidId(id) THEN Throw(c, "InvalidArgument")
                                         ELSE [c EXCEPT !.pc = "find"])

\* prisma.question.findUnique answers; the record, or null, is returned.
GetQuestionByIdFind(p) ==
  /\ At(p, "getQuestionById", "find")
  /\ QuestionCall(p, Return([call[p] EXCEPT !.queried = TRUE],
                            QuestionById(call[p].id.val)))

\* createQuestion up to the await of enunciadoExists.
CreateQuestionCall(p, d) ==
  /\ inUse = "question" /\ call[p].pc = "idle"
  /\ nextQuestionId <= MaxId
  /\ LET c == Start("createQuestion", IdUndefined, d, questions)
         e == ValidateQuestionData(d)
     IN QuestionCall(p, IF e # "" THEN Throw(c, e) ELSE [c EXCEPT !.pc = "check"])

\* Variant: the answer of enunciadoExists is not tested.
CreateQuestionCheckThenInsert(p) ==
  /\ At(p, "createQuestion", "check")
  /\ QuestionCall(p, [call[p] EXCEPT !.queried = TRUE, !.pc = "write",
                        !.found = QuestionByEnunciado(call[p].data.enunciado.val)])

\* enunciadoExists answers.
CreateQuestionCheck(p) ==
  /\ At(p, "createQuestion", "check")
  /\ LET c == [call[p] EXCEPT !.queried = TRUE,
                 !.found = QuestionByEnunciado(call[p].data.enunciado.val)]
     IN QuestionCall(p, IF EnunciadoExists(call[p].data.enunciado.val)
                          THEN Throw(c, "Conflict")
                          ELSE [c EXCEPT !.pc = "write"])

\* prisma.question.create answers.
CreateQuestionInsert(p) ==
  /\ At(p, "createQuestion", "write")
  /\ LET c == [call[p] EXCEPT !.wrote = TRUE]
         q == NewQuestion(call[p].data, nextQuestionId)
     IN IF QuestionByEnunciado(q.enunciado) # {}
          THEN /\ call' = [call EXCEPT ![p] = Throw(c, "UniqueConstraintFailed")]
               /\ UNCHANGED <<questions, nextQuestionId>>
          ELSE /\ questions' = questions \cup {q}
               /\ nextQuestionId' = nextQuestionId + 1
               /\ call' = [call EXCEPT ![p] = Return(c, {q})]
  /\ UNCHANGED <<subjects, nextSubjectId, inUse>>

\* updateQuestion: what follows the uniqueness check, up to the await of update.
UpdateQuestionValidate(c) ==
  IF DificuldadeForaDaFaixa(c.data) THEN Throw(c, "ValidationError")
                                    ELSE [c EXCEPT !.pc = "write"]

\* updateQuestion up to its first await.
UpdateQuestionCall(p, id, d) ==
  /\ inUse = "question" /\ call[p].pc = "idle"
  /\ LET c == Start("updateQuestion", id, d, questions)
     IN QuestionCall(p, IF InvalidId(id) THEN Throw(c, "InvalidArgument")
                                         ELSE [c EXCEPT !.pc = "find"])

\* Variant: without the test of questaoExistente.
UpdateQuestionFindUnchecked(p) ==
  /\ At(p, "updateQuestion", "find")
  /\ LET c == [call[p] EXCEPT !.queried = TRUE, !.found = QuestionById(call[p].id.val)]
         d == call[p].data
     IN QuestionCall(p,
          IF c.found # {} /\ TruthyStr(d.enunciado)
               /\ (\E q \in c.found : d.enunciado.val # q.enunciado)
            THEN [c EXCEPT !.pc = "check"]
            ELSE UpdateQuestionValidate(c))

\* findUnique by id answers: questaoExistente.
UpdateQuestionFind(p) ==
  /\ At(p, "updateQuestion", "find")
  /\ LET c == [call[p] EXCEPT !.queried = TRUE, !.found = QuestionById(call[p].id.val)]
         d == call[p].data
     IN QuestionCall(p,
          IF c.found = {} THEN Throw(c, "NotFound")
          ELSE IF TruthyStr(d.enunciado)
                    /\ (\E q \in c.found : d.enunciado.val # q.enunciado)
                 THEN [c EXCEPT !.pc = "check"]
                 ELSE UpdateQuestionValidate(c))

\* enunciadoExists answers.
UpdateQuestionCheck(p) ==
  /\ At(p, "updateQuestion", "check")
  /\ QuestionCall(p, IF EnunciadoExists(call[p].data.enunciado.val)
                       THEN Throw(call[p], "Conflict")
                       ELSE UpdateQuestionValidate(call[p]))

\* prisma.question.update answers.
UpdateQuestionWrite(p) ==
  /\ At(p, "updateQuestion", "write")
  /\ LET c == [call[p] EXCEPT !.wrote = TRUE]
         now == QuestionById(call[p].id.val)
     IN IF now = {}
          THEN /\ call' = [call EXCEPT ![p] = Throw(c, "RecordNotFound")]
               /\ UNCHANGED questions
          ELSE LET q == CHOOSE x \in now : TRUE
                   n == QuestionPatched(q, call[p].data)
               IN IF QuestionByEnunciado(n.enunciado) \ {q} # {}
                    THEN /\ call' = [call EXCEPT ![p] = Throw(c, "UniqueConstraintFailed")]
                         /\ UNCHANGED questions
                    ELSE /\ questions' = (questions \ {q}) \cup {n}
                         /\ call' = [call EXCEPT ![p] = Return(c, {n})]
  /\ UNCHANGED <<subjects, nextQuestionId, nextSubjectId, inUse>>

\* deleteQuestion up to its first await.
DeleteQuestionCall(p, id) ==
  /\ inUse = "question" /\ call[p].pc = "idle"
  /\ LET c == Start("deleteQuestion", id, NoData, questions)
     IN QuestionCall(p, IF InvalidId(id) THEN Throw(c, "InvalidArgument")
                                         ELSE [c EXCEPT !.pc = "find"])

\* findUnique by id answers: questaoExistente.
DeleteQuestionFind(p) ==
  /\ At(p, "deleteQuestion", "find")
  /\ LET c == [call[p] EXCEPT !.queried = TRUE,
                 !.found = {DeletedQuestionView(q) : q \in QuestionById(call[p].id.val)}]
     IN QuestionCall(p, IF c.found = {} THEN Throw(c, "NotFound")
                                        ELSE [c EXCEPT !.pc = "write"])

\* Variant: the delete request removes nothing.
QuestionsAfterDeleteNone(id) == questions

\* The table after prisma.question.delete({ where: { id } }).
QuestionsAfterDelete(id) == questions \ QuestionById(id)

\* prisma.question.delete answers; questaoExistente is returned.
DeleteQuestionRemove(p) ==
  /\ At(p, "deleteQuestion", "write")
  /\ LET c == [call[p] EXCEPT !.wrote = TRUE]
     IN IF QuestionById(call[p].id.val) = {}
          THEN /\ call' = [call EXCEPT ![p] = Throw(c, "RecordNotFound")]
               /\ UNCHANGED questions
          ELSE /\ questions' = QuestionsAfterDelete(call[p].id.val)
               /\ call' = [call EXCEPT ![p] = Return(c, c.found)]
  /\ UNCHANGED <<subjects, nextQuestionId, nextSubjectId, inUse>>

\* ---------------------------------------------------------------- subjectService.js
\* prisma.subject.findUnique({ where: { id } }) and ({ where: { nome } })
SubjectById(id) == {s \in subjects : s.id = id}
SubjectByNome(n) == {s \in subjects : s.nome = n}

NomeExists(n) == SubjectByNome(n) # {}

\* The kind of the error validateSubjectData throws, "" when it throws none.
ValidateSubjectData(d) ==
  IF ~TruthyStr(d.nome) \/ ~TruthyNum(d.professorId) THEN "ValidationError" ELSE ""

\* The row prisma.subject.create inserts: data of createSubject, id by the store.
NewSubject(d, id) ==
  [id |-> id, nome |-> d.nome.val,
   ativa |-> IF d.ativa.has THEN d.ativa.val ELSE TRUE,
   professorId |-> d.professorId.val]

\* The row s after prisma.subject.update with dadosAtualizacao built from d.
SubjectPatched(s, d) ==
  [id |-> s.id,
   nome |-> IF TruthyStr(d.nome) THEN d.nome.val ELSE s.nome,
   ativa |-> IF d.ativa.has THEN d.ativa.val ELSE s.ativa,
   professorId |-> IF TruthyNum(d.professorId) THEN d.professorId.val ELSE s.professorId]

SubjectCall(p, c) ==
  /\ call' = [call EXCEPT ![p] = c]
  /\ UNCHANGED <<questions, subjects, nextQuestionId, nextSubjectId, inUse>>

\* getSubjectById up to its await.
GetSubjectByIdCall(p, id) ==
  /\ inUse = "subject" /\ call[p].pc = "idle"
  /\ LET c == Start("getSubjectById", id, NoData, subjects)
     IN SubjectCall(p, IF InvalidId(id) THEN Throw(c, "InvalidArgument")
                                        ELSE [c EXCEPT !.pc = "find"])

\* prisma.subject.findUnique answers; the record, or null, is returned.
GetSubjectByIdFind(p) ==
  /\ At(p, "getSubjectById", "find")
  /\ SubjectCall(p, Return([call[p] EXCEPT !.queried = TRUE],
                           SubjectById(call[p].id.val)))

\* createSubject up to the await of nomeExists.
CreateSubjectCall(p, d) ==
  /\ inUse = "subject" /\ call[p].pc = "idle"
  /\ nextSubjectId <= MaxId
  /\ LET c == Start("createSubject", IdUndefined, d, subjects)
         e == ValidateSubjectData(d)
     IN SubjectCall(p, IF e # "" THEN Throw(c, e) ELSE [c EXCEPT !.pc = "check"])

\* nomeExists answers.
CreateSubjectCheck(p) ==
  /\ At(p, "createSubject", "check")
  /\ LET c == [call[p] EXCEPT !.queried = TRUE,
                 !.found = SubjectByNome(call[p].data.nome.val)]
     IN SubjectCall(p, IF NomeExists(call[p].data.nome.val)
                         THEN Throw(c, "Conflict")
                         ELSE [c EXCEPT !.pc = "write"])

\* prisma.subject.create answers.
CreateSubjectInsert(p) ==
  /\ At(p, "createSubject", "write")
  /\ LET c == [call[p] EXCEPT !.wrote = TRUE]
         s == NewSubject(call[p].data, nextSubjectId)
     IN IF SubjectByNome(s.nome) # {}
          THEN /\ call' = [call EXCEPT ![p] = Throw(c, "UniqueConstraintFailed")]
               /\ UNCHANGED <<subjects, nextSubjectId>>
          ELSE /\ subjects' = subjects \cup {s}
               /\ nextSubjectId' = nextSubjectId + 1
               /\ call' = [call EXCEPT ![p] = Return(c, {s})]
  /\ UNCHANGED <<questions, nextQuestionId, inUse>>

\* updateSubject up to its first await.
UpdateSubjectCall(p, id, d) ==
  /\ inUse = "subject" /\ call[p].pc = "idle"
  /\ LET c == Start("updateSubject", id, d, subjects)
     IN SubjectCall(p, IF InvalidId(id) THEN Throw(c, "InvalidArgument")
                                        ELSE [c EXCEPT !.pc = "find"])

\* findUnique by id answers: disciplinaExistente.
UpdateSubjectFind(p) ==
  /\ At(p, "updateSubject", "find")
  /\ LET c == [call[p] EXCEPT !.queried = TRUE, !.found = SubjectById(call[p].id.val)]
         d == call[p].data
     IN SubjectCall(p,
          IF c.found = {} THEN Throw(c, "NotFound")
          ELSE IF TruthyStr(d.nome) /\ (\E s \in c.found : d.nome.val # s.nome)
                 THEN [c EXCEPT !.pc = "check"]
                 ELSE [c EXCEPT !.pc = "write"])

\* nomeExists answers.
UpdateSubjectCheck(p) ==
  /\ At(p, "updateSubject", "check")
  /\ SubjectCall(p, IF NomeExists(call[p].data.nome.val)
                      THEN Throw(call[p], "Conflict")
                      ELSE [call[p] EXCEPT !.pc = "write"])

\* prisma.subject.update answers.
UpdateSubjectWrite(p) ==
  /\ At(p, "updateSubject", "write")
  /\ LET c == [call[p] EXCEPT !.wrote = TRUE]
         now == SubjectById(call[p].id.val)
     IN IF now = {}
          THEN /\ call' = [call EXCEPT ![p] = Throw(c, "RecordNotFound")]
               /\ UNCHANGED subjects
          ELSE LET s == CHOOSE x \in now : TRUE
                   n == SubjectPatched(s, call[p].data)
               IN IF SubjectByNome(n.nome) \ {s} # {}
                    THEN /\ call' = [call EXCEPT ![p] = Throw(c, "UniqueConstraintFailed")]
                         /\ UNCHANGED subjects
                    ELSE /\ subjects' = (subjects \ {s}) \cup {n}
                         /\ call' = [call EXCEPT ![p] = Return(c, {n})]
  /\ UNCHANGED <<questions, nextQuestionId, nextSubjectId, inUse>>

\* deleteSubject up to its first await.
DeleteSubjectCall(p, id) ==
  /\ inUse = "subject" /\ call[p].pc = "idle"
  /\ LET c == Start("deleteSubject", id, NoData, subjects)
     IN SubjectCall(p, IF InvalidId(id) THEN Throw(c, "InvalidArgument")
                                        ELSE [c EXCEPT !.pc = "find"])

\* findUnique by id answers: disciplinaExistente (id, nome, ativa, professorId).
DeleteSubjectFind(p) ==
  /\ At(p, "deleteSubject", "find")
  /\ LET c == [call[p] EXCEPT !.queried = TRUE, !.found = SubjectById(call[p].id.val)]
     IN SubjectCall(p, IF c.found = {} THEN Throw(c, "NotFound")
                                       ELSE [c EXCEPT !.pc = "write"])

\* prisma.subject.delete answers; disciplinaExistente is returned.
DeleteSubjectRemove(p) ==
  /\ At(p, "deleteSubject", "write")
  /\ LET c == [call[p] EXCEPT !.wrote = TRUE]
     IN IF SubjectById(call[p].id.val) = {}
          THEN /\ call' = [call EXCEPT ![p] = Throw(c, "RecordNotFound")]
               /\ UNCHANGED subjects
          ELSE /\ subjects' = subjects \ SubjectById(call[p].id.val)
               /\ call' = [call EXCEPT ![p] = Return(c, c.found)]
  /\ UNCHANGED <<questions, nextQuestionId, nextSubjectId, inUse>>

\* The caller has the result of the call; p is free for the next call.
Done(p) ==
  /\ call[p].pc = "done"
  /\ call' = [call EXCEPT ![p] = Idle]
  /\ UNCHANGED <<questions, subjects, nextQuestionId, nextSubjectId, inUse>>

\* ---------------------------------------------------------------- inputs
Enunciados == {"e1", "e2"}
Respostas == {"r1", "r2"}
Nomes == {"n1", "n2"}

StrIn(S) == {Absent("")} \cup {Given(s) : s \in S \cup {""}}
NumIn(S) == {Absent(0)} \cup {Given(n) : n \in S \cup {0}}
BoolIn == {Absent(FALSE), Given(TRUE), Given(FALSE)}

\* Difficulties around both ends of the range, 0 and a negative one included.
DifIn ==
  {Absent(0)} \cup {Given(n) : n \in {MinDificuldade - 2, MinDificuldade - 1,
                                      MinDificuldade, MaxDificuldade,
                                      MaxDificuldade + 1}}

IdIn == {IdUndefined, IdText} \cup {IdNum(n) : n \in -1 .. MaxId + 1}

\* Data objects of the question service, one call at a time: every choice of
\* enunciado, dificuldade and ativa with the other three all valid or all
\* omitted; and every choice of the other three.
QuestionDataSeq ==
  [enunciado : StrIn(Enunciados), dificuldade : DifIn,
   respostaCorreta : {Absent(""), Given("r1")}, disciplinaId : {Absent(0)},
   autorId : {Absent(0)}, ativa : BoolIn]
  \cup
  [enunciado : StrIn(Enunciados), dificuldade : DifIn,
   respostaCorreta : {Given("r1")}, disciplinaId : {Given(1)},
   autorId : {Given(1)}, ativa : BoolIn]
  \cup
  [enunciado : {Absent(""), Given("e1")}, dificuldade : {Absent(0), Given(MinDificuldade)},
   respostaCorreta : StrIn(Respostas), disciplinaId : NumIn({1}),
   autorId : NumIn({1}), ativa : {Absent(FALSE)}]

SubjectDataSeq ==
  [nome : StrIn(Nomes), ativa : BoolIn, professorId : NumIn({1, 2})]

\* Data objects of concurrent calls: valid creates and small patches.
QuestionDataConc ==
  [enunciado : {Absent(""), Given("e1"), Given("e2")},
   dificuldade : {Given(MinDificuldade)},
   respostaCorreta : {Given("r1")}, disciplinaId : {Given(1)},
   autorId : {Given(1)}, ativa : {Absent(FALSE)}]

SubjectDataConc ==
  [nome : {Absent(""), Given("n1"), Given("n2")}, ativa : {Absent(FALSE)},
   professorId : {Given(1)}]

IdConc == {IdNum(n) : n \in 1 .. MaxId}

\* ---------------------------------------------------------------- specifications
Init ==
  /\ questions = {} /\ subjects = {}
  /\ nextQuestionId = 1 /\ nextSubjectId = 1
  /\ call = [p \in Procs |-> Idle]
  /\ inUse \in {"question", "subject"}

Steps(p) ==
  \/ GetQuestionByIdFind(p)
  \/ CreateQuestionCheck(p)
  \/ CreateQuestionInsert(p)
  \/ UpdateQuestionFind(p)
  \/ UpdateQuestionCheck(p)
  \/ UpdateQuestionWrite(p)
  \/ DeleteQuestionFind(p)
  \/ DeleteQuestionRemove(p)
  \/ GetSubjectByIdFind(p)
  \/ CreateSubjectCheck(p)
  \/ CreateSubjectInsert(p)
  \/ UpdateSubjectFind(p)
  \/ UpdateSubjectCheck(p)
  \/ UpdateSubjectWrite(p)
  \/ DeleteSubjectFind(p)
  \/ DeleteSubjectRemove(p)
  \/ Done(p)

\* The arguments a caller may pass to service s through p: none while p is busy.
Args(p, s, S) == IF call[p].pc = "idle" /\ inUse = s THEN S ELSE {}

Calls(p, ids, qdata, sdata) ==
  \/ \E id \in Args(p, "question", ids) : GetQuestionByIdCall(p, id)
  \/ \E d \in Args(p, "question", qdata) : CreateQuestionCall(p, d)
  \/ \E id \in Args(p, "question", ids), d \in Args(p, "question", qdata) :
       UpdateQuestionCall(p, id, d)
  \/ \E id \in Args(p, "question", ids) : DeleteQuestionCall(p, id)
  \/ \E id \in Args(p, "subject", ids) : GetSubjectByIdCall(p, id)
  \/ \E d \in Args(p, "subject", sdata) : CreateSubjectCall(p, d)
  \/ \E id \in Args(p, "subject", ids), d \in Args(p, "subject", sdata) :
       UpdateSubjectCall(p, id, d)
  \/ \E id \in Args(p, "subject", ids) : DeleteSubjectCall(p, id)

\* Calls in flight together: their requests interleave.
Next ==
  \E p \in Procs : Calls(p, IdConc, QuestionDataConc, SubjectDataConc) \/ Steps(p)

Spec == Init /\ [][Next]_vars

\* Each call runs to completion before the next starts.
NextSeq == Calls(1, IdIn, QuestionDataSeq, SubjectDataSeq) \/ Steps(1)

SpecSeq == Init /\ [][NextSeq]_vars

\* ---------------------------------------------------------------- properties
Fin(p, o) == call[p].op = o /\ call[p].pc = "done"

PositiveId(id) == id.kind = "number" /\ id.val > 0

InRange(n) == n >= 1 /\ n <= 5

\* Data that createQuestion / createSubject accepts, as the contract states it.
ValidQuestion(d) ==
  /\ d.enunciado.has /\ d.enunciado.val # ""
  /\ d.dificuldade.has /\ InRange(d.dificuldade.val)
  /\ d.respostaCorreta.has /\ d.respostaCorreta.val # ""
  /\ d.disciplinaId.has /\ d.disciplinaId.val > 0
  /\ d.autorId.has /\ d.autorId.val > 0

ValidSubject(d) ==
  /\ d.nome.has /\ d.nome.val # ""
  /\ d.professorId.has /\ d.professorId.val > 0

\* C1: with one call at a time, no two stored questions share an enunciado and
\* no two stored subjects share a nome; a create of a value that a stored
\* record holds, and an update to a value that another stored record holds,
\* fail with Conflict and write nothing.
C1_UniqueSequential ==
  /\ \A a, b \in questions : a.enunciado = b.enunciado => a = b
  /\ \A a, b \in subjects : a.nome = b.nome => a = b
  /\ \A p \in Procs :
       /\ ( /\ Fin(p, "createQuestion")
            /\ ValidQuestion(call[p].data)
            /\ \E q \in call[p].before : q.enunciado = call[p].data.enunciado.val )
          => call[p].err = "Conflict" /\ ~call[p].wrote /\ questions = call[p].before
       /\ ( /\ Fin(p, "createSubject")
            /\ ValidSubject(call[p].data)
            /\ \E s \in call[p].before : s.nome = call[p].data.nome.val )
          => call[p].err = "Conflict" /\ ~call[p].wrote /\ subjects = call[p].before
       /\ ( /\ Fin(p, "updateQuestion")
            /\ PositiveId(call[p].id)
            /\ \E q \in call[p].before : q.id = call[p].id.val
            /\ call[p].data.enunciado.has
            /\ \E q \in call[p].before :
                 q.id # call[p].id.val /\ q.enunciado = call[p].data.enunciado.val )
          => call[p].err = "Conflict" /\ ~call[p].wrote /\ questions = call[p].before
       /\ ( /\ Fin(p, "updateSubject")
            /\ PositiveId(call[p].id)
            /\ \E s \in call[p].before : s.id = call[p].id.val
            /\ call[p].data.nome.has
            /\ \E s \in call[p].before :
                 s.id # call[p].id.val /\ s.nome = call[p].data.nome.val )
          => call[p].err = "Conflict" /\ ~call[p].wrote /\ subjects = call[p].before

\* An update to the enunciado of the other stored question has failed with Conflict.
C1_Witness ==
  \E p \in Procs :
    /\ Fin(p, "updateQuestion") /\ call[p].err = "Conflict"
    /\ Cardinality(questions) = 2

\* C2: createQuestion, and updateQuestion on an existing id, fail with
\* ValidationError for every given dificuldade outside 1..5, and succeed for
\* every dificuldade in 1..5 when the other fields are valid and the enunciado
\* collides with no other record.
C2_DifficultyValidated ==
  \A p \in Procs :
    /\ ( Fin(p, "createQuestion") /\ call[p].data.dificuldade.has
         /\ ~InRange(call[p].data.dificuldade.val) )
       => call[p].err = "ValidationError"
    /\ ( Fin(p, "createQuestion") /\ call[p].data.dificuldade.has
         /\ ValidQuestion(call[p].data)
         /\ ~\E q \in call[p].before : q.enunciado = call[p].data.enunciado.val )
       => call[p].err = ""
    /\ ( /\ Fin(p, "updateQuestion") /\ PositiveId(call[p].id)
         /\ \E q \in call[p].before : q.id = call[p].id.val
         /\ call[p].data.dificuldade.has
         /\ ~\E q \in call[p].before :
               q.id # call[p].id.val /\ q.enunciado = call[p].data.enunciado.val )
       => IF InRange(call[p].data.dificuldade.val)
            THEN call[p].err = ""
            ELSE call[p].err = "ValidationError"

\* The value a successful update leaves in a field, when every property that
\* is present in data is applied / when the truthy ones (and ativa) are.
IfPresent(x, old) == IF x.has THEN x.val ELSE old
IfTruthyStr(x, old) == IF x.has /\ x.val # "" THEN x.val ELSE old
IfTruthyNum(x, old) == IF x.has /\ x.val # 0 THEN x.val ELSE old

\* C3 as stated: a successful update sets every field that is present in data
\* to the supplied value and leaves every omitted field, and every other
\* record, unchanged (for a question, with dificuldade omitted or in 1..5).
C3_PresentFieldsApplied ==
  \A p \in Procs :
    /\ ( /\ Fin(p, "updateQuestion") /\ call[p].err = ""
         /\ (call[p].data.dificuldade.has => InRange(call[p].data.dificuldade.val)) )
       => \E old \in call[p].before, new \in questions :
            /\ old.id = call[p].id.val /\ new.id = old.id
            /\ call[p].ret = {new}
            /\ questions \ {new} = call[p].before \ {old}
            /\ new.enunciado = IfPresent(call[p].data.enunciado, old.enunciado)
            /\ new.dificuldade = IfPresent(call[p].data.dificuldade, old.dificuldade)
            /\ new.respostaCorreta
                 = IfPresent(call[p].data.respostaCorreta, old.respostaCorreta)
            /\ new.disciplinaId = IfPresent(call[p].data.disciplinaId, old.disciplinaId)
            /\ new.autorId = IfPresent(call[p].data.autorId, old.autorId)
            /\ new.ativa = IfPresent(call[p].data.ativa, old.ativa)
    /\ ( Fin(p, "updateSubject") /\ call[p].err = "" )
       => \E old \in call[p].before, new \in subjects :
            /\ old.id = call[p].id.val /\ new.id = old.id
            /\ call[p].ret = {new}
            /\ subjects \ {new} = call[p].before \ {old}
            /\ new.nome = IfPresent(call[p].data.nome, old.nome)
            /\ new.professorId = IfPresent(call[p].data.professorId, old.professorId)
            /\ new.ativa = IfPresent(call[p].data.ativa, old.ativa)

\* C3 amended: a successful update sets every text or number field that is
\* present in data with a truthy value (non-empty, non-zero) to that value,
\* sets ativa whenever it is present (true or false), and leaves every other
\* field (omitted, or given as "" or 0) and every other record unchanged.
C3_TruthyFieldsApplied ==
  \A p \in Procs :
    /\ ( Fin(p, "updateQuestion") /\ call[p].err = "" )
       => \E old \in call[p].before, new \in questions :
            /\ old.id = call[p].id.val /\ new.id = old.id
            /\ call[p].ret = {new}
            /\ questions \ {new} = call[p].before \ {old}
            /\ new.enunciado = IfTruthyStr(call[p].data.enunciado, old.enunciado)
            /\ new.dificuldade = IfTruthyNum(call[p].data.dificuldade, old.dificuldade)
            /\ new.respostaCorreta
                 = IfTruthyStr(call[p].data.respostaCorreta, old.respostaCorreta)
            /\ new.disciplinaId = IfTruthyNum(call[p].data.disciplinaId, old.disciplinaId)
            /\ new.autorId = IfTruthyNum(call[p].data.autorId, old.autorId)
            /\ new.ativa = IfPresent(call[p].data.ativa, old.ativa)
    /\ ( Fin(p, "updateSubject") /\ call[p].err = "" )
       => \E old \in call[p].before, new \in subjects :
            /\ old.id = call[p].id.val /\ new.id = old.id
            /\ call[p].ret = {new}
            /\ subjects \ {new} = call[p].before \ {old}
            /\ new.nome = IfTruthyStr(call[p].data.nome, old.nome)
            /\ new.professorId = IfTruthyNum(call[p].data.professorId, old.professorId)
            /\ new.ativa = IfPresent(call[p].data.ativa, old.ativa)

\* updateQuestion(id, {ativa: false}) has turned an active question inactive.
C3_Witness ==
  \E p \in Procs :
    /\ Fin(p, "updateQuestion") /\ call[p].err = ""
    /\ call[p].data.ativa = Given(FALSE)
    /\ ~call[p].data.enunciado.has /\ ~call[p].data.dificuldade.has
    /\ ~call[p].data.respostaCorreta.has /\ ~call[p].data.disciplinaId.has
    /\ ~call[p].data.autorId.has
    /\ \E old \in call[p].before : old.id = call[p].id.val /\ old.ativa
    /\ \E new \in questions : new.id = call[p].id.val /\ ~new.ativa

C5_GetById ==
  \A p \in Procs :
    /\ Fin(p, "getQuestionById")
       => /\ ~call[p].wrote /\ questions = call[p].before
          /\ IF PositiveId(call[p].id)
               THEN /\ call[p].err = "" /\ call[p].queried
                    /\ call[p].ret = {q \in call[p].before : q.id = call[p].id.val}
               ELSE call[p].err = "InvalidArgument" /\ ~call[p].queried
    /\ Fin(p, "getSubjectById")
       => /\ ~call[p].wrote /\ subjects = call[p].before
          /\ IF PositiveId(call[p].id)
               THEN /\ call[p].err = "" /\ call[p].queried
                    /\ call[p].ret = {s \in call[p].before : s.id = call[p].id.val}
               ELSE call[p].err = "InvalidArgument" /\ ~call[p].queried

\* getSubjectById of a positive id that matches no subject has returned nothing,
\* with subjects stored.
C5_Witness ==
  \E p \in Procs :
    /\ Fin(p, "getSubjectById") /\ PositiveId(call[p].id)
    /\ call[p].ret = {} /\ call[p].err = "" /\ subjects # {}

\* C6: the record a successful create stores and returns has ativa equal to
\* the supplied value, and TRUE when ativa is omitted.
C6_ActiveDefault ==
  \A p \in Procs :
    /\ ( Fin(p, "createQuestion") /\ call[p].err = "" )
       => \E r \in call[p].ret :
            /\ call[p].ret = {r} /\ r \in questions /\ r \notin call[p].before
            /\ r.ativa = IF call[p].data.ativa.has THEN call[p].data.ativa.val ELSE TRUE
    /\ ( Fin(p, "createSubject") /\ call[p].err = "" )
       => \E r \in call[p].ret :
            /\ call[p].ret = {r} /\ r \in subjects /\ r \notin call[p].before
            /\ r.ativa = IF call[p].data.ativa.has THEN call[p].data.ativa.val ELSE TRUE

\* createQuestion with ativa: false has stored and returned an inactive question.
C6_Witness ==
  \E p \in Procs :
    /\ Fin(p, "createQuestion") /\ call[p].err = ""
    /\ call[p].data.ativa = Given(FALSE)
    /\ \E r \in call[p].ret : r \in questions /\ ~r.ativa

\* C7: every stored question has a dificuldade in 1..5.
C7_StoredDifficultyInRange ==
  \A q \in questions : InRange(q.dificuldade)

\* updateQuestion has raised the dificuldade of a stored question from 1 to 5.
C7_Witness ==
  \E p \in Procs :
    /\ Fin(p, "updateQuestion") /\ call[p].err = ""
    /\ call[p].data.dificuldade = Given(5)
    /\ \E old \in call[p].before : old.id = call[p].id.val /\ old.dificuldade = 1
    /\ \E new \in questions : new.id = call[p].id.val /\ new.dificuldade = 5

\* The table of the service in use.
Table == IF inUse = "question" THEN questions ELSE subjects

\* C8: with one call at a time, a call that fails with InvalidArgument,
\* ValidationError, Conflict or NotFound has sent no write request and leaves
\* the table as it was before the call; update and delete of a positive id
\* that matches no record fail with NotFound.
C8_FailFast ==
  \A p \in Procs :
    /\ ( call[p].pc = "done" /\ call[p].err \in Kinds )
       => ~call[p].wrote /\ Table = call[p].before
    /\ ( /\ call[p].pc = "done"
         /\ call[p].op \in {"updateQuestion", "deleteQuestion",
                            "updateSubject", "deleteSubject"}
         /\ PositiveId(call[p].id)
         /\ ~\E r \in call[p].before : r.id = call[p].id.val )
       => call[p].err = "NotFound"
    /\ ( call[p].pc = "done" /\ ~call[p].wrote ) => Table = call[p].before

\* updateQuestion of a positive id that matches no question has failed, with
\* questions stored.
C8_Witness ==
  \E p \in Procs :
    /\ Fin(p, "updateQuestion") /\ call[p].err = "NotFound"
    /\ PositiveId(call[p].id) /\ questions # {}

\* C9: the uniqueness check and the insert are separate requests.  A create
\* is at its insert request only after its own check found no record with its
\* enunciado / nome, and it has written nothing yet; a create that failed with
\* Conflict found such a record and never sent an insert; a create whose
\* insert the store refused had passed its check.  Nothing in this excludes a
\* second create with the same value from being at its insert request too.
C9_CheckThenInsert ==
  \A p \in Procs :
    call[p].op \in {"createQuestion", "createSubject"}
    => /\ call[p].pc = "write"
          => call[p].found = {} /\ call[p].queried /\ ~call[p].wrote
       /\ ( call[p].pc = "done" /\ call[p].err = "Conflict" )
          => call[p].found # {} /\ ~call[p].wrote
       /\ ( call[p].pc = "done" /\ call[p].err = "UniqueConstraintFailed" )
          => call[p].found = {} /\ call[p].wrote

\* Two createQuestion calls with the same enunciado have both passed the check
\* and are both at the insert request, and no question has that enunciado.
C9_Witness ==
  \E p, q \in Procs :
    /\ p # q
    /\ At(p, "createQuestion", "write") /\ At(q, "createQuestion", "write")
    /\ call[p].data.enunciado = call[q].data.enunciado
    /\ ~\E r \in questions : r.enunciado = call[p].data.enunciado.val

\* C10: under every interleaving, a call that fails fails with
\* InvalidArgument, ValidationError, Conflict or NotFound.
C10_ClosedErrorSet ==
  \A p \in Procs : call[p].err \in Kinds \cup {""}

====
